---- MODULE Spec2Model ----
(***************************************************************************)
(* A model of the BASIC interpreter of src/basic.py: the lexer (tokenize,  *)
(* readString), the recursive-descent parser with its lowering of IF and   *)
(* FOR into a flat instruction list, and the program-counter loop of main  *)
(* with the evaluation of expressions on Python values.                    *)
(*                                                                         *)
(* Text is a sequence of one-character strings.  Python values are records *)
(* [t, v] with t one of "float", "int", "bool", "str"; every float the     *)
(* language can build is integer-valued (integer literals, + and -), so a  *)
(* float is held as the integer it equals.                                 *)
(***************************************************************************)
EXTENDS Integers, Sequences, FiniteSets, TLC

VARIABLES
    src,        \* the characters of the source file
    fpos,       \* how many characters have been read from the file
    c,          \* the character the last f.read(1) returned ("" at end of file)
    line, pos,  \* tokenize's line and column counters
    token,      \* tokenize's word in progress
    value,      \* readString's text in progress
    tokens,     \* the tokens yielded so far
    lexst,      \* "scan": in tokenize's loop, "string": in readString's loop, "done"
    phase,      \* "lex", "parse", "run", "done", "error"
    program,    \* the list of statements parse returned
    labels,     \* the global label table
    pc,         \* the global program counter
    variables,  \* the global variable table
    output,     \* the lines printed so far
    err,        \* the exception that ended the run, "" if none
    trace       \* history: the address of each statement executed so far and,
                \* for an If, the value its condition had

lexvars == <<src, fpos, c, line, pos, token, value, tokens, lexst>>
runvars == <<program, labels, pc, variables, output, err, trace>>
vars == <<src, fpos, c, line, pos, token, value, tokens, lexst, phase,
          program, labels, pc, variables, output, err, trace>>

(***************************************************************************)
(* Characters                                                              *)
(***************************************************************************)
Upper == <<"A","B","C","D","E","F","G","H","I","J","K","L","M",
           "N","O","P","Q","R","S","T","U","V","W","X","Y","Z">>
LowerCase == <<"a","b","c","d","e","f","g","h","i","j","k","l","m",
           "n","o","p","q","r","s","t","u","v","w","x","y","z">>
Digits == <<"0","1","2","3","4","5","6","7","8","9">>

\* The printable ASCII characters in code point order, from 32 (space) on.  The
\* backslash (92) and the backquote (96), which no source of the model holds,
\* are placeholders.
Ascii ==
    <<" ","!","\"","#","$","%","&","'","(",")","*","+",",","-",".","/">>
    \o Digits \o <<":",";","<","=",">","?","@">> \o Upper
    \o <<"[","backslash","]","^","_","backquote">> \o LowerCase \o <<"{","|","}","~">>

IndexOf(s, x) == CHOOSE i \in 1..Len(s) : s[i] = x
Has(s, x) == \E i \in 1..Len(s) : s[i] = x

\* ord(): control characters first, then the printable ones.
Ord(ch) == IF ch = "\t" THEN 9
           ELSE IF ch = "\n" THEN 10
           ELSE IF ch = "\r" THEN 13
           ELSE 31 + IndexOf(Ascii, ch)

\* str.lower() on one character and on a text.
LowerChar(ch) == IF Has(Upper, ch) THEN LowerCase[IndexOf(Upper, ch)] ELSE ch
Lower(s) == [i \in 1..Len(s) |-> LowerChar(s[i])]

\* str.isnumeric() on ASCII text: non-empty and all digits.
IsNumeric(s) == Len(s) > 0 /\ \A i \in 1..Len(s) : Has(Digits, s[i])

RECURSIVE ParseDigits(_)
\* float() of a run of digits: its decimal value.
ParseDigits(s) ==
    IF Len(s) = 0 THEN 0
    ELSE 10 * ParseDigits(SubSeq(s, 1, Len(s) - 1)) + (IndexOf(Digits, s[Len(s)]) - 1)

RECURSIVE NatDigits(_)
\* The decimal digits of a natural number.
NatDigits(n) ==
    IF n < 10 THEN <<Digits[n + 1]>>
    ELSE NatDigits(n \div 10) \o <<Digits[(n % 10) + 1]>>

IntDigits(n) == IF n < 0 THEN <<"-">> \o NatDigits(0 - n) ELSE NatDigits(n)

(***************************************************************************)
(* Tokens and the lexer                                                    *)
(***************************************************************************)
operators == <<"+", "-", "/", "*", "<", ">", "=", "&">>
separators == <<" ", "\t", "\n", "\r">>

Token(l, p, v) == [type |-> "Token", line |-> l, pos |-> p, value |-> v]
StringToken(l, p, v) == [type |-> "StringToken", line |-> l, pos |-> p, value |-> v]
NewLineToken(l, p, v) == [type |-> "NewLineToken", line |-> l, pos |-> p, value |-> v]
\* Lookahead._NONE, the peek of an exhausted iterator
NONE == [type |-> "NONE", line |-> 0, pos |-> 0, value |-> <<>>]

\* f.read(1): the next character, "" once the file is exhausted
Read == IF fpos < Len(src) THEN src[fpos + 1] ELSE ""

\* One iteration of tokenize's loop.
Tokenize ==
    /\ phase = "lex" /\ lexst = "scan"
    /\ LET ch == Read
           p == pos + 1
           word == IF Len(token) > 0 THEN <<Token(line, p - Len(token), token)>>
                   ELSE <<>>
       IN /\ c' = ch
          /\ fpos' = IF ch = "" THEN fpos ELSE fpos + 1
          /\ IF ch = ""
             THEN /\ lexst' = "done"
                  /\ pos' = p
                  /\ UNCHANGED <<line, token, value, tokens>>
             ELSE IF Has(separators, ch)
             THEN /\ tokens' = tokens \o word \o
                        (IF ch = "\n" THEN <<NewLineToken(line, p, <<ch>>)>> ELSE <<>>)
                  /\ line' = IF ch = "\n" THEN line + 1 ELSE line
                  /\ pos' = IF ch = "\n" THEN 0 ELSE p
                  /\ token' = <<>>
                  /\ UNCHANGED <<value, lexst>>
             ELSE IF Has(operators, ch)
             THEN /\ tokens' = tokens \o word \o <<Token(line, p, <<ch>>)>>
                  /\ token' = <<>>
                  /\ pos' = p
                  /\ UNCHANGED <<line, value, lexst>>
             ELSE IF ch = "\""
             THEN /\ lexst' = "string"
                  /\ value' = <<>>
                  /\ pos' = p
                  /\ UNCHANGED <<line, token, tokens>>
             ELSE /\ token' = token \o <<ch>>
                  /\ pos' = p
                  /\ UNCHANGED <<line, value, tokens, lexst>>
    /\ UNCHANGED <<src, phase>>
    /\ UNCHANGED runvars

\* One iteration of readString's loop; on the closing quote, its return and
\* the rest of tokenize's branch that called it.
ReadString ==
    /\ phase = "lex" /\ lexst = "string"
    /\ LET ch == Read
       IN /\ c' = ch
          /\ fpos' = IF ch = "" THEN fpos ELSE fpos + 1
          /\ IF ch = "\""
             THEN /\ tokens' = tokens \o <<StringToken(line, pos, value)>>
                  /\ pos' = pos + Len(value) + 1
                  /\ token' = <<>>
                  /\ lexst' = "scan"
                  /\ UNCHANGED value
             ELSE /\ value' = IF ch = "" THEN value ELSE value \o <<ch>>
                  /\ UNCHANGED <<pos, token, tokens, lexst>>
    /\ UNCHANGED <<src, line, phase>>
    /\ UNCHANGED runvars

(***************************************************************************)
(* The lookahead iterator over the tokens.  A parser state carries the     *)
(* tokens, the index of the peeked token, the program built so far, the    *)
(* label table, the token or expression the last call returned and the     *)
(* exception being raised ("" when none).  hung says that the generator    *)
(* never returns from readString once the tokens it holds are consumed.    *)
(***************************************************************************)
NoExpr == [k |-> "NoExpr"]

Lookahead(toks, hung, labs) ==
    [toks |-> toks, hung |-> hung, pos |-> 1, prog |-> <<>>, labels |-> labs,
     tok |-> NONE, expr |-> NoExpr,
     exc |-> IF hung /\ Len(toks) = 0 THEN "Hang" ELSE ""]

peek(st) == IF st.pos <= Len(st.toks) THEN st.toks[st.pos] ELSE NONE

Raise(st, e) == [st EXCEPT !.exc = e]

\* Lookahead.__next__: the peeked token, after pulling the one behind it.
next(st) ==
    IF st.pos > Len(st.toks) THEN Raise(st, "StopIteration")
    ELSE IF st.hung /\ st.pos = Len(st.toks) THEN Raise(st, "Hang")
    ELSE [st EXCEPT !.tok = st.toks[st.pos], !.pos = st.pos + 1]

\* Token.__eq__ / StringToken.__eq__ against a str; a NewLineToken and the
\* exhausted sentinel equal no str.
TokEq(tok, s) == tok.type = "Token" /\ Lower(tok.value) = Lower(s)

InOperators(tok) == \E i \in 1..Len(operators) : TokEq(tok, <<operators[i]>>)

append(st, stmt) == [st EXCEPT !.prog = Append(st.prog, stmt)]

(***************************************************************************)
(* Nodes                                                                   *)
(***************************************************************************)
Number(n) == [k |-> "Number", value |-> n]
String(s) == [k |-> "String", value |-> s]
Variable(n) == [k |-> "Variable", name |-> n]
Label(n) == [k |-> "Label", name |-> n]
Infix(o, l, r) == [k |-> o, l |-> l, r |-> r]

NoPC == -1
Let(v, e) == [op |-> "Let", varname |-> v, expr |-> e]
PrintStmt(e) == [op |-> "Print", expr |-> e]
\* Goto(label=...) has no pc until it first executes; Goto(pc=...) has no label.
GotoLabel(l) == [op |-> "Goto", label |-> l, pc |-> NoPC]
GotoPC(p) == [op |-> "Goto", label |-> <<>>, pc |-> p]
None == [op |-> "None"]
If(e, t, f) == [op |-> "If", expr |-> e, ifTrue |-> t, ifFalse |-> f]

convToken(tok) ==
    IF tok.type = "StringToken" THEN String(tok.value)
    ELSE IF IsNumeric(tok.value) THEN Number(ParseDigits(tok.value))
    ELSE IF Len(tok.value) > 0 /\ tok.value[Len(tok.value)] = ":"
         THEN Label(SubSeq(tok.value, 1, Len(tok.value) - 1))
    ELSE Variable(tok.value)

(***************************************************************************)
(* The parser                                                              *)
(***************************************************************************)
kIF == <<"I","F">>
kTHEN == <<"T","H","E","N">>
kELSE == <<"E","L","S","E">>
kEND == <<"E","N","D">>
kFOR == <<"F","O","R">>
kTO == <<"T","O">>
kNEXT == <<"N","E","X","T">>
kLET == <<"L","E","T">>
kPRINT == <<"P","R","I","N","T">>
kGOTO == <<"G","O","T","O">>
kREM == <<"R","E","M">>

\* The operator node parseExpression builds for an operator token.
OperatorNode(op, l, r) ==
    IF TokEq(op, <<"=">>) THEN Infix("Equals", l, r)
    ELSE IF TokEq(op, <<"+">>) THEN Infix("Plus", l, r)
    ELSE IF TokEq(op, <<"-">>) THEN Infix("Minus", l, r)
    ELSE IF TokEq(op, <<"&">>) THEN Infix("Concat", l, r)
    ELSE IF TokEq(op, <<"<">>) THEN Infix("LessThan", l, r)
    ELSE IF TokEq(op, <<">">>) THEN Infix("GreaterThan", l, r)
    ELSE NoExpr

\* The rest of a parse function runs only when no exception is being raised.
Then(it, K(_)) == IF it.exc # "" THEN it ELSE K(it)

\* raise UnexpectedError(expected, it.__next__())
RaiseUnexpectedNext(it) == Then(next(it), LAMBDA n : Raise(n, "UnexpectedError"))

RECURSIVE leftRest(_)
\* the operators that follow, each applied to what was parsed so far
leftRest(a) ==
    IF ~InOperators(peek(a)) THEN a
    ELSE Then(next(a), LAMBDA op :
         Then(next(op), LAMBDA b :
         IF OperatorNode(op.tok, a.expr, convToken(b.tok)) = NoExpr
         THEN Raise(b, "Exception")
         ELSE leftRest([b EXCEPT !.expr = OperatorNode(op.tok, a.expr, convToken(b.tok))])))

\* parseExpression grouping left-to-right.
parseExpressionLeft(it) ==
    Then(next(it), LAMBDA a : leftRest([a EXCEPT !.expr = convToken(a.tok)]))

RECURSIVE parseExpression(_)
parseExpression(it) ==
    Then(next(it), LAMBDA a :
    IF ~InOperators(peek(a)) THEN [a EXCEPT !.expr = convToken(a.tok)]
    ELSE Then(next(a), LAMBDA op :
         \* All expressions are evaluated strictly right-to-left
         Then(parseExpression(op), LAMBDA r :
         IF OperatorNode(op.tok, convToken(a.tok), r.expr) = NoExpr
         THEN Raise(r, "Exception")
         ELSE [r EXCEPT !.expr = OperatorNode(op.tok, convToken(a.tok), r.expr)])))

RECURSIVE parseRem(_)
parseRem(it) ==
    IF peek(it).type = "NewLineToken" THEN it
    ELSE Then(next(it), LAMBDA a : parseRem(a))

parsePrint(it) ==
    Then(parseExpression(it), LAMBDA e : append(e, PrintStmt(e.expr)))

parseLet(it) ==
    Then(next(it), LAMBDA v :
    Then(next(v), LAMBDA eq :
    IF ~TokEq(eq.tok, <<"=">>) THEN Raise(eq, "UnexpectedError")
    ELSE Then(parseExpression(eq), LAMBDA e :
         append(e, Let(v.tok.value, e.expr)))))

RECURSIVE parseStatement(_)
RECURSIVE parseBlock(_, _)

\* while it.peek != stop1 and it.peek != stop2: parseStatement(it, program)
parseBlock(it, stops) ==
    IF it.exc # "" THEN it
    ELSE IF \E s \in stops : TokEq(peek(it), s) THEN it
    ELSE parseBlock(parseStatement(it), stops)

\* forTail with the branch back aimed at the initial assignment.
forTailFromInit(it, varname, finalValue, startOfLoopPC) ==
    append(append(it, Let(varname, Infix("Plus", Variable(varname), Number(1)))),
           If(Infix("LessThan", Variable(varname), finalValue),
              GotoPC(startOfLoopPC - 1), None))

\* forTail with the operands of the comparison exchanged.
forTailExchanged(it, varname, finalValue, startOfLoopPC) ==
    append(append(it, Let(varname, Infix("Plus", Variable(varname), Number(1)))),
           If(Infix("LessThan", finalValue, Variable(varname)),
              GotoPC(startOfLoopPC), None))

\* The two statements parseFor appends after the body.
forTail(it, varname, finalValue, startOfLoopPC) ==
    append(append(it, Let(varname, Infix("Plus", Variable(varname), Number(1)))),
           If(Infix("LessThan", Variable(varname), finalValue),
              GotoPC(startOfLoopPC), None))

parseFor(it) ==
    Then(next(it), LAMBDA v :
    Then(next(v), LAMBDA eq :
    IF ~TokEq(eq.tok, <<"=">>) THEN Raise(eq, "UnexpectedError") ELSE
    Then(parseExpression(eq), LAMBDA i :
    Then(next(append(i, Let(v.tok.value, i.expr))), LAMBDA to :
    IF ~TokEq(to.tok, kTO) THEN Raise(to, "UnexpectedError") ELSE
    Then(parseExpression(to), LAMBDA f :
    Then(parseBlock(f, {kNEXT}), LAMBDA body :
    Then(next(forTail(body, v.tok.value, f.expr, Len(f.prog))), LAMBDA end :
    IF ~TokEq(end.tok, kNEXT) THEN Raise(end, "UnexpectedError") ELSE
    \* The variable name is allowed to follow NEXT
    IF TokEq(peek(end), v.tok.value) THEN next(end) ELSE end)))))))

\* patchIf with the true target aimed at the If itself.
patchIfSelf(it, expr, ifPC, thenPC, jmpOverElsePC, hasElse) ==
    [it EXCEPT !.prog =
        [i \in 1..Len(it.prog) |->
            IF i = ifPC + 1
            THEN If(expr, GotoPC(ifPC),
                    IF hasElse THEN GotoPC(jmpOverElsePC + 1) ELSE GotoPC(Len(it.prog)))
            ELSE IF hasElse /\ i = jmpOverElsePC + 1 THEN GotoPC(Len(it.prog))
            ELSE it.prog[i]]]

\* patchIf with the targets of the If exchanged.
patchIfSwapped(it, expr, ifPC, thenPC, jmpOverElsePC, hasElse) ==
    [it EXCEPT !.prog =
        [i \in 1..Len(it.prog) |->
            IF i = ifPC + 1
            THEN If(expr,
                    IF hasElse THEN GotoPC(jmpOverElsePC + 1) ELSE GotoPC(Len(it.prog)),
                    GotoPC(thenPC))
            ELSE IF hasElse /\ i = jmpOverElsePC + 1 THEN GotoPC(Len(it.prog))
            ELSE it.prog[i]]]

\* patchIf with the false target of an IF without ELSE one address further.
patchIfPastEnd(it, expr, ifPC, thenPC, jmpOverElsePC, hasElse) ==
    [it EXCEPT !.prog =
        [i \in 1..Len(it.prog) |->
            IF i = ifPC + 1
            THEN If(expr, GotoPC(thenPC),
                    IF hasElse THEN GotoPC(jmpOverElsePC + 1) ELSE GotoPC(Len(it.prog) + 1))
            ELSE IF hasElse /\ i = jmpOverElsePC + 1 THEN GotoPC(Len(it.prog))
            ELSE it.prog[i]]]

\* patchIf with the jump over ELSE aimed at the start of the ELSE block.
patchIfIntoElse(it, expr, ifPC, thenPC, jmpOverElsePC, hasElse) ==
    [it EXCEPT !.prog =
        [i \in 1..Len(it.prog) |->
            IF i = ifPC + 1
            THEN If(expr, GotoPC(thenPC),
                    IF hasElse THEN GotoPC(jmpOverElsePC + 1) ELSE GotoPC(Len(it.prog)))
            ELSE IF hasElse /\ i = jmpOverElsePC + 1 THEN GotoPC(jmpOverElsePC + 1)
            ELSE it.prog[i]]]

\* The end of parseIf: the reserved slots get the If and the jump over ELSE.
patchIf(it, expr, ifPC, thenPC, jmpOverElsePC, hasElse) ==
    [it EXCEPT !.prog =
        [i \in 1..Len(it.prog) |->
            IF i = ifPC + 1
            THEN If(expr, GotoPC(thenPC),
                    IF hasElse THEN GotoPC(jmpOverElsePC + 1) ELSE GotoPC(Len(it.prog)))
            ELSE IF hasElse /\ i = jmpOverElsePC + 1 THEN GotoPC(Len(it.prog))
            ELSE it.prog[i]]]

parseIf(it) ==
    Then(parseExpression(it), LAMBDA e :
    \* Read and skip the THEN keyword
    IF ~TokEq(peek(e), kTHEN) THEN RaiseUnexpectedNext(e) ELSE
    Then(next(e), LAMBDA th :
    \* Reserve some space for the If statement, then the THEN block
    Then(parseBlock(append(th, None), {kELSE, kEND}), LAMBDA t :
    \* Generate code for the ELSE block, if any
    Then(IF TokEq(peek(t), kELSE)
         THEN parseBlock(next(append(t, None)), {kEND})
         ELSE t, LAMBDA el :
    \* Read and skip end END keyword
    IF ~TokEq(peek(el), kEND) THEN RaiseUnexpectedNext(el) ELSE
    Then(next(el), LAMBDA en :
    patchIf(en, e.expr, Len(th.prog), Len(th.prog) + 1, Len(t.prog),
            TokEq(peek(t), kELSE)))))))

parseStatement(it) ==
    Then(next(it), LAMBDA a :
    IF TokEq(a.tok, kIF) THEN parseIf(a)
    ELSE IF TokEq(a.tok, kPRINT) THEN parsePrint(a)
    ELSE IF TokEq(a.tok, kFOR) THEN parseFor(a)
    ELSE IF TokEq(a.tok, kLET) THEN parseLet(a)
    ELSE IF TokEq(a.tok, kREM) THEN parseRem(a)
    ELSE IF TokEq(a.tok, kGOTO)
         THEN Then(next(a), LAMBDA l : append(l, GotoLabel(l.tok.value)))
    ELSE IF a.tok.type = "NewLineToken" THEN a
    ELSE IF convToken(a.tok).k = "Variable" /\ TokEq(peek(a), <<"=">>)
         THEN \* Special case of let statement without let
              Then(next(a), LAMBDA eq :
              Then(parseExpression(eq), LAMBDA e :
                   append(e, Let(a.tok.value, e.expr))))
    ELSE IF convToken(a.tok).k = "Label"
         THEN \* Label points to the next statement
              [a EXCEPT !.labels = (convToken(a.tok).name :> Len(a.prog)) @@ a.labels]
    ELSE Raise(a, "UnexpectedError"))

RECURSIVE parseLoop(_)
\* parse's while True loop: it ends with the first exception.
parseLoop(it) ==
    IF it.exc # "" THEN it ELSE parseLoop(parseStatement(it))

parse(toks, hung, labs) == parseLoop(Lookahead(toks, hung, labs))

(***************************************************************************)
(* Python values and the operators the nodes apply to them                 *)
(***************************************************************************)
F(n) == [t |-> "float", v |-> n]
I(n) == [t |-> "int", v |-> n]
B(b) == [t |-> "bool", v |-> b]
S(s) == [t |-> "str", v |-> s]

\* bool is a subclass of int: True is 1 and False is 0 in arithmetic and comparison.
IsNum(x) == x.t \in {"float", "int", "bool"}
NumVal(x) == IF x.t = "bool" THEN (IF x.v THEN 1 ELSE 0) ELSE x.v
Arith(x, y, n) == IF x.t = "float" \/ y.t = "float" THEN F(n) ELSE I(n)

RECURSIVE StrLt(_, _)
\* str < str: lexicographic by code point
StrLt(a, b) ==
    IF Len(b) = 0 THEN FALSE
    ELSE IF Len(a) = 0 THEN TRUE
    ELSE IF a[1] # b[1] THEN Ord(a[1]) < Ord(b[1])
    ELSE StrLt(Tail(a), Tail(b))

Ok(x) == [exc |-> "", val |-> x]
Fail(e) == [exc |-> e, val |-> B(FALSE)]

\* x + y
PyAdd(x, y) ==
    IF IsNum(x) /\ IsNum(y) THEN Ok(Arith(x, y, NumVal(x) + NumVal(y)))
    ELSE IF x.t = "str" /\ y.t = "str" THEN Ok(S(x.v \o y.v))
    ELSE Fail("TypeError")

\* x - y
PySub(x, y) ==
    IF IsNum(x) /\ IsNum(y) THEN Ok(Arith(x, y, NumVal(x) - NumVal(y)))
    ELSE Fail("TypeError")

\* x == y
PyEq(x, y) ==
    IF IsNum(x) /\ IsNum(y) THEN Ok(B(NumVal(x) = NumVal(y)))
    ELSE IF x.t = "str" /\ y.t = "str" THEN Ok(B(x.v = y.v))
    ELSE Ok(B(FALSE))

\* x <= y
PyLe(x, y) ==
    IF IsNum(x) /\ IsNum(y) THEN Ok(B(NumVal(x) <= NumVal(y)))
    ELSE IF x.t = "str" /\ y.t = "str" THEN Ok(B(x.v = y.v \/ StrLt(x.v, y.v)))
    ELSE Fail("TypeError")

\* x < y
PyLt(x, y) ==
    IF IsNum(x) /\ IsNum(y) THEN Ok(B(NumVal(x) < NumVal(y)))
    ELSE IF x.t = "str" /\ y.t = "str" THEN Ok(B(StrLt(x.v, y.v)))
    ELSE Fail("TypeError")

\* x > y
PyGt(x, y) ==
    IF IsNum(x) /\ IsNum(y) THEN Ok(B(NumVal(x) > NumVal(y)))
    ELSE IF x.t = "str" /\ y.t = "str" THEN Ok(B(StrLt(y.v, x.v)))
    ELSE Fail("TypeError")

\* str(x): a float with its decimal point, an int without, a bool by name
PyStr(x) ==
    IF x.t = "float" THEN IntDigits(x.v) \o <<".", "0">>
    ELSE IF x.t = "int" THEN IntDigits(x.v)
    ELSE IF x.t = "bool" THEN (IF x.v THEN <<"T","r","u","e">> ELSE <<"F","a","l","s","e">>)
    ELSE x.v

\* concatenation that accepts text only
PyConcatStrict(x, y) ==
    IF x.t = "str" /\ y.t = "str" THEN Ok(S(x.v \o y.v)) ELSE Fail("TypeError")

\* str(x) + str(y)
PyConcat(x, y) == Ok(S(PyStr(x) \o PyStr(y)))

Apply(o, x, y) ==
    CASE o = "Plus" -> PyAdd(x, y)
      [] o = "Minus" -> PySub(x, y)
      [] o = "Equals" -> PyEq(x, y)
      [] o = "GreaterThan" -> PyGt(x, y)
      [] o = "LessThan" -> PyLt(x, y)
      [] o = "Concat" -> PyConcat(x, y)

\* lookup with a default of 0 for a name nothing assigned.
lookupDefault(name, env) == IF name \in DOMAIN env THEN Ok(env[name]) ELSE Ok(F(0))

\* Variable.eval: variables[self.name]
lookup(name, env) == IF name \in DOMAIN env THEN Ok(env[name]) ELSE Fail("KeyError")

RECURSIVE eval(_, _)
\* node.eval() against the variable table: left operand first, then right.
eval(e, env) ==
    CASE e.k = "Number" -> Ok(F(e.value))
      [] e.k = "String" -> Ok(S(e.value))
      [] e.k = "Variable" -> lookup(e.name, env)
      [] e.k = "Label" -> Fail("AttributeError")
      [] OTHER ->
            LET l == eval(e.l, env) IN
            IF l.exc # "" THEN l
            ELSE LET r == eval(e.r, env) IN
                 IF r.exc # "" THEN r ELSE Apply(e.k, l.val, r.val)

(***************************************************************************)
(* Execution                                                               *)
(***************************************************************************)
\* What executing one statement leaves: the exception raised if any, newpc,
\* the variable table, the text printed, the statement itself (a Goto keeps
\* the address it resolved) and the value an If tested.
NoTest == [t |-> "none", v |-> FALSE]
Effect(e, npc, env, out, stmt, test) ==
    [exc |-> e, newpc |-> npc, variables |-> env, printed |-> out,
     stmt |-> stmt, test |-> test]

\* Goto.exec landing one instruction after the label.
execGotoNext(g, npc, env, labs) ==
    IF g.pc = NoPC
    THEN IF g.label \in DOMAIN labs
         THEN Effect("", labs[g.label] + 1, env, <<>>,
                     [g EXCEPT !.pc = labs[g.label] + 1], NoTest)
         ELSE Effect("Exception", npc, env, <<>>, g, NoTest)
    ELSE Effect("", g.pc, env, <<>>, g, NoTest)

\* Goto.exec
execGoto(g, npc, env, labs) ==
    IF g.pc = NoPC
    THEN IF g.label \in DOMAIN labs
         THEN Effect("", labs[g.label], env, <<>>, [g EXCEPT !.pc = labs[g.label]], NoTest)
         ELSE Effect("Exception", npc, env, <<>>, g, NoTest)
    ELSE Effect("", g.pc, env, <<>>, g, NoTest)

\* Let.exec storing into a fresh table.
execLetFresh(s, npc, env) ==
    LET r == eval(s.expr, env) IN
    IF r.exc # "" THEN Effect(r.exc, npc, env, <<>>, s, NoTest)
    ELSE Effect("", npc, (s.varname :> r.val), <<>>, s, NoTest)

\* Let.exec
execLet(s, npc, env) ==
    LET r == eval(s.expr, env) IN
    IF r.exc # "" THEN Effect(r.exc, npc, env, <<>>, s, NoTest)
    ELSE Effect("", npc, (s.varname :> r.val) @@ env, <<>>, s, NoTest)

\* the PRINT statement's exec: print(self.expr.eval())
execPrint(s, npc, env) ==
    LET r == eval(s.expr, env) IN
    IF r.exc # "" THEN Effect(r.exc, npc, env, <<>>, s, NoTest)
    ELSE Effect("", npc, env, <<PyStr(r.val)>>, s, NoTest)

\* If.exec
execIf(s, npc, env, labs) ==
    LET r == eval(s.expr, env) IN
    IF r.exc # "" THEN Effect(r.exc, npc, env, <<>>, s, NoTest)
    ELSE IF PyEq(r.val, B(TRUE)).val.v
         THEN IF s.ifTrue.op # "None"
              THEN [execGoto(s.ifTrue, npc, env, labs) EXCEPT !.stmt = s, !.test = r.val]
              ELSE Effect("", npc, env, <<>>, s, r.val)
         ELSE IF s.ifFalse.op # "None"
              THEN [execGoto(s.ifFalse, npc, env, labs) EXCEPT !.stmt = s, !.test = r.val]
              ELSE Effect("", npc, env, <<>>, s, r.val)

\* program[pc].exec(), with newpc = pc + 1 set before it
exec(s, npc, env, labs) ==
    CASE s.op = "Let" -> execLet(s, npc, env)
      [] s.op = "Print" -> execPrint(s, npc, env)
      [] s.op = "Goto" -> execGoto(s, npc, env, labs)
      [] s.op = "If" -> execIf(s, npc, env, labs)
      [] s.op = "None" -> Effect("AttributeError", npc, env, <<>>, s, NoTest)

MaxSteps == 30

\* The generator is stuck in readString: the file is exhausted and no closing
\* quote was read, so its loop reads "" for ever.
LexerHung == lexst = "string" /\ c = ""

\* parse(tokens), once the tokens it pulls are there: it returns the program
\* on StopIteration, raises UnexpectedError or Exception, and never returns
\* when it pulls a token from a generator that is stuck.
Parse ==
    /\ phase = "lex"
    /\ lexst = "done" \/ LexerHung
    /\ LET r == parse(tokens, LexerHung, labels) IN
       /\ r.exc # "Hang"
       /\ labels' = r.labels
       /\ IF r.exc = "StopIteration"
          THEN /\ program' = r.prog
               /\ phase' = "run"
               /\ err' = ""
          ELSE /\ phase' = "error"
               /\ err' = r.exc
               /\ UNCHANGED program
    /\ UNCHANGED lexvars
    /\ UNCHANGED <<pc, variables, output, trace>>

\* One iteration of main's loop: newpc = pc + 1; program[pc].exec(); pc = newpc
Step ==
    /\ phase = "run"
    /\ pc < Len(program)
    /\ Len(trace) < MaxSteps
    /\ LET r == exec(program[pc + 1], pc + 1, variables, labels) IN
       IF r.exc # ""
       THEN /\ phase' = "error"
            /\ err' = r.exc
            /\ UNCHANGED <<program, pc, variables, output, trace>>
       ELSE /\ program' = [program EXCEPT ![pc + 1] = r.stmt]
            /\ pc' = r.newpc
            /\ variables' = r.variables
            /\ output' = output \o r.printed
            /\ trace' = Append(trace, [pc |-> pc, val |-> r.test])
            /\ UNCHANGED <<phase, err>>
    /\ UNCHANGED lexvars
    /\ UNCHANGED labels

\* main's loop ends: pc >= len(program)
Finish ==
    /\ phase = "run"
    /\ pc >= Len(program)
    /\ phase' = "done"
    /\ UNCHANGED lexvars
    /\ UNCHANGED runvars

Start(text) ==
    /\ src = text
    /\ fpos = 0 /\ c = "unset" /\ line = 1 /\ pos = 0
    /\ token = <<>> /\ value = <<>> /\ tokens = <<>> /\ lexst = "scan"
    /\ phase = "lex"
    /\ program = <<>> /\ labels = <<>> /\ pc = 0 /\ variables = <<>>
    /\ output = <<>> /\ err = "" /\ trace = <<>>

(***************************************************************************)
(* Source texts                                                            *)
(***************************************************************************)
MaxNum == 2

Sp == <<" ">>
NL == <<"\n">>
Quote == <<"\"">>
Num(n) == NatDigits(n)
Str(s) == Quote \o s \o Quote
Bin(a, o, b) == a \o Sp \o <<o>> \o Sp \o b
PrintS(e) == kPRINT \o Sp \o e \o NL
LetS(v, e) == kLET \o Sp \o Bin(v, "=", e) \o NL
GotoS(l) == kGOTO \o Sp \o l \o NL
IfS(cnd, tb, eb) ==
    kIF \o Sp \o cnd \o Sp \o kTHEN \o NL \o tb \o kELSE \o NL \o eb \o kEND \o NL
IfNoElseS(cnd, tb) == kIF \o Sp \o cnd \o Sp \o kTHEN \o NL \o tb \o kEND \o NL
ForS(v, a, b, body) ==
    kFOR \o Sp \o Bin(v, "=", a) \o Sp \o kTO \o Sp \o b \o NL \o body \o kNEXT \o NL

Nums == {Num(n) : n \in 0..MaxNum}
OpChars == {"+", "-", "=", "<", ">", "&"}

\* Texts for the lexer alone: two words, each followed by a separator or by
\* nothing, among them a text literal that is never closed.
LexWords == {kLET, <<"X">>, <<"=">>, <<"1">>, Str(<<"a"," ","b">>), <<"\"","a">>}
LexSeps == {<<>>, Sp, NL, <<"\t">>, <<"\r">>}
LexSources ==
    {w1 \o s1 \o w2 \o s2 : w1 \in LexWords, w2 \in LexWords, s1 \in LexSeps, s2 \in LexSeps}
    \cup {kLET \o Sp \o Bin(<<"X">>, "=", <<"1">>) \o tail : tail \in {<<>>, NL}}
    \cup {PrintS(Str(<<"a">>)), kPRINT \o Sp \o <<"\"","a","b","c">> \o NL}

\* Expressions: every pair and every chain of three operands over the six
\* operators, a chain of four, and a variable holding the result of a
\* comparison as left operand.
Operands == Nums \cup {Str(<<"a">>)}
PairOperands ==
    Operands \cup {Str(<<"1">>), Str(<<"x","=">>), Str(<<"b">>), <<"5">>, <<"1","0">>}
ExprSources ==
    {PrintS(Bin(a, o, b)) : a \in PairOperands, b \in PairOperands, o \in OpChars}
    \cup {PrintS(Bin(a, o1, Bin(b, o2, d))) :
            a \in Operands, b \in Operands, d \in Operands, o1 \in OpChars, o2 \in OpChars}
    \cup {PrintS(Bin(Num(MaxNum), o1, Bin(<<"1">>, o2, Bin(<<"1">>, o3, <<"1">>)))) :
            o1 \in OpChars, o2 \in OpChars, o3 \in OpChars}
    \cup {LetS(<<"X">>, Bin(<<"1">>, "=", e)) \o PrintS(Bin(<<"X">>, o, b)) :
            e \in {<<"1">>, <<"2">>}, o \in OpChars, b \in Operands \cup {<<"X">>}}
    \cup {PrintS(<<"1","0">> \o <<" ","-"," ","5"," ","-"," ","2">>)}

\* Control flow: IF with and without ELSE, FOR, each nested in the other, and
\* statements that read a variable nothing assigned or jump to a label
\* nothing defines.
PA == PrintS(Str(<<"A">>))
PB == PrintS(Str(<<"B">>))
PZ == PrintS(Str(<<"Z">>))
LY == LetS(<<"Y">>, <<"1">>)
Conds == {Bin(<<"1">>, "=", <<"1">>), Bin(<<"1">>, "=", <<"2">>),
          Bin(<<"X">>, "<", <<"1">>), <<"1">>}
Blocks0 == {<<>>, PA, LY}
Ifs1 == {IfS(cnd, t, e) : cnd \in Conds, t \in Blocks0, e \in Blocks0}
        \cup {IfNoElseS(cnd, t) : cnd \in Conds, t \in Blocks0}
Fors1 == {ForS(<<"X">>, a, b, body) : a \in Nums, b \in Nums, body \in {PrintS(<<"X">>), LY}}
InnerIfs == {IfS(cnd, PA, PB) : cnd \in Conds} \cup {IfNoElseS(cnd, PA) : cnd \in Conds}
InnerFors == {ForS(<<"J">>, a, b, PA) : a \in Nums, b \in Nums}
Inner == InnerIfs \cup InnerFors
Nested ==
    {IfS(cnd, s, t) : cnd \in Conds, s \in Inner, t \in {<<>>, PB}}
    \cup {IfS(cnd, t, s) : cnd \in Conds, s \in Inner, t \in {<<>>, PB}}
    \cup {IfNoElseS(cnd, s) : cnd \in Conds, s \in Inner}
    \cup {ForS(<<"X">>, a, b, s) : a \in Nums, b \in Nums, s \in Inner}
Deep == {IfS(c1, IfS(c2, s, PB), LY) : c1 \in Conds, c2 \in Conds, s \in InnerIfs}
Undefined == <<"U">>
ReadsU == {PrintS(Undefined), LetS(<<"Y">>, Undefined),
           LetS(<<"Y">>, Bin(<<"Y">>, "+", Undefined)),
           LetS(Undefined, Bin(Undefined, "+", <<"1">>)),
           PrintS(Bin(Str(<<"a">>), "-", Undefined)),
           IfS(Bin(Undefined, "=", <<"1">>), PA, PB),
           IfNoElseS(Undefined, PA),
           ForS(<<"X">>, <<"0">>, Undefined, PA)}
RemS == kREM \o Sp \o kIF \o Sp \o <<"x">> \o NL
Remarked == {RemS \o IfS(cnd, RemS \o PA, PB \o RemS) \o RemS \o PZ : cnd \in Conds}
GotoU == GotoS(<<"n","o","l","a","b","e","l">>)
GotoSources ==
    {pre \o GotoU \o post : pre \in {<<>>, PA, LY, PA \o LY}, post \in {<<>>, PZ}}
    \cup {IfNoElseS(cnd, GotoU) \o PZ : cnd \in Conds}
    \cup {IfS(cnd, PA, GotoU) \o PZ : cnd \in Conds}
    \cup {GotoS(<<"e">>) \o PA \o <<"e",":">> \o NL \o PZ}
FlowSources ==
    {s \o tail : s \in Ifs1 \cup Fors1, tail \in {<<>>, PZ}}
    \cup {s \o PZ : s \in Nested \cup Deep}
    \cup {pre \o s \o PZ : pre \in {<<>>, LY \o PrintS(<<"Y">>)}, s \in ReadsU}
    \cup GotoSources
    \cup Remarked

InitLex == \E text \in LexSources : Start(text)
InitExpr == \E text \in ExprSources : Start(text)
InitFlow == \E text \in FlowSources : Start(text)

Next == Tokenize \/ ReadString \/ Parse \/ Step \/ Finish

\* The lexer on short texts, expressions in a PRINT, and control flow.
SpecLex == InitLex /\ [][Next]_vars
SpecExpr == InitExpr /\ [][Next]_vars
SpecFlow == InitFlow /\ [][Next]_vars

(***************************************************************************)
(* The layout of a source text.  The sources of the model hold one         *)
(* statement, keyword or label a line; the layout below gives each IF and  *)
(* FOR of the source the addresses of its pieces: a PRINT, LET or GOTO is  *)
(* one statement, IF one (the branch), ELSE one (the jump over the ELSE    *)
(* block), FOR one (the initial assignment), NEXT two (the increment and   *)
(* the branch back), END and a label none.                                 *)
(***************************************************************************)
RECURSIVE SplitAt(_, _)
\* the pieces of text s between the occurrences of character ch
SplitAt(s, ch) ==
    IF ~Has(s, ch) THEN <<s>>
    ELSE <<SubSeq(s, 1, IndexOf(s, ch) - 1)>>
         \o SplitAt(SubSeq(s, IndexOf(s, ch) + 1, Len(s)), ch)

SourceLines == SplitAt(src, "\n")
WordsOf(ln) == SplitAt(ln, " ")

EmptyLayout == [n |-> 0, open |-> <<>>, ifs |-> {}, fors |-> {}]

LayoutLine(acc, ln) ==
    LET w == WordsOf(ln)
        top == acc.open[Len(acc.open)]
        rest == SubSeq(acc.open, 1, Len(acc.open) - 1)
    IN CASE w[1] = kIF ->
              [acc EXCEPT !.n = @ + 1,
                          !.open = Append(@, [at |-> acc.n, jump |-> -1, w |-> w])]
         [] w[1] = kELSE ->
              [acc EXCEPT !.n = @ + 1, !.open = Append(rest, [top EXCEPT !.jump = acc.n])]
         [] w[1] = kEND ->
              [acc EXCEPT !.open = rest,
                          !.ifs = @ \cup {[at |-> top.at, jump |-> top.jump, end |-> acc.n]}]
         [] w[1] = kFOR ->
              [acc EXCEPT !.n = @ + 1,
                          !.open = Append(@, [at |-> acc.n, jump |-> -1, w |-> w])]
         [] w[1] = kNEXT ->
              [acc EXCEPT !.n = @ + 2, !.open = rest,
                          !.fors = @ \cup {[at |-> top.at, incr |-> acc.n,
                                            init |-> top.w[4], final |-> top.w[6]]}]
         [] w[1] \in {kPRINT, kLET, kGOTO} -> [acc EXCEPT !.n = @ + 1]
         [] OTHER -> acc

RECURSIVE LayoutFrom(_, _)
LayoutFrom(acc, lns) ==
    IF lns = <<>> THEN acc ELSE LayoutFrom(LayoutLine(acc, Head(lns)), Tail(lns))

Layout == LayoutFrom(EmptyLayout, SourceLines)

\* An IF of the source: its branch at address at, its THEN block from at + 1,
\* then (with ELSE) the jump and the ELSE block, and the first address after it.
HasElse(f) == f.jump # -1
ThenBlock(f) == IF HasElse(f) THEN (f.at + 1)..(f.jump - 1) ELSE (f.at + 1)..(f.end - 1)
ElseBlock(f) == IF HasElse(f) THEN (f.jump + 1)..(f.end - 1) ELSE {}
Inside(f) == (f.at + 1)..(f.end - 1)

\* The addresses executed so far, then the address the run is at.
pcs == [i \in 1..Len(trace) |-> trace[i].pc] \o <<pc>>

\* The last index of the run of addresses after index k that stay in set R.
RunEnd(k, R) ==
    CHOOSE m \in k..Len(pcs) :
        /\ \A i \in (k + 1)..m : pcs[i] \in R
        /\ m = Len(pcs) \/ pcs[m + 1] \notin R

LabelGoto(s) == s.op = "Goto" /\ s.label # <<>>
NoGotoNoLabel(f) ==
    /\ \A a \in Inside(f) : ~LabelGoto(program[a + 1])
    /\ \A l \in DOMAIN labels : labels[l] \notin Inside(f)

IsFalse(x) == x.t = "bool" /\ ~x.v

(***************************************************************************)
(* Control flow                                                            *)
(***************************************************************************)
UndefinedGoto(s) == LabelGoto(s) /\ s.pc = NoPC /\ s.label \notin DOMAIN labels
HasUndefinedGoto == \E i \in 1..Len(program) : UndefinedGoto(program[i])

\* C1: a program that holds a GOTO to a label nothing defines fails before its
\* first instruction executes: nothing is printed, no variable is assigned,
\* and the run never ends normally.
C1_NoEffectWithUndefinedLabel ==
    HasUndefinedGoto =>
        /\ trace = <<>> /\ output = <<>> /\ variables = <<>>
        /\ phase # "done"

ThenPath(f) == ThenBlock(f) \cup (IF HasElse(f) THEN {f.jump} ELSE {})
ElseStart(f) == IF HasElse(f) THEN f.jump + 1 ELSE f.end
PathTaken(k, f) == IF pcs[k + 1] = f.at + 1 THEN ThenPath(f) ELSE ElseBlock(f)

\* C2: each time the branch of an IF whose blocks hold no GOTO and no label
\* executes, the run continues in exactly one of the two blocks (the THEN
\* block when the condition is true, the ELSE block, empty when ELSE is
\* absent, when it is false), stays in that block until it leaves the IF,
\* and leaves it at the first instruction after the whole IF.
C2_ExactlyOneBlock ==
    \A k \in 1..Len(trace) : \A f \in Layout.ifs :
        (trace[k].pc = f.at /\ NoGotoNoLabel(f)) =>
            /\ trace[k].val.t = "bool" =>
                  pcs[k + 1] = IF trace[k].val.v THEN f.at + 1 ELSE ElseStart(f)
            /\ pcs[k + 1] \in {f.at + 1, ElseStart(f)}
            /\ \A i \in (k + 1)..RunEnd(k, Inside(f)) : pcs[i] \in PathTaken(k, f)
            /\ RunEnd(k, Inside(f)) < Len(pcs) => pcs[RunEnd(k, Inside(f)) + 1] = f.end

\* An IF nested in another IF took its ELSE block, ran it and left the IF.
C2_Witness ==
    \E k \in 1..Len(trace) : \E f \in Layout.ifs : \E g \in Layout.ifs :
        /\ f.at \in Inside(g) /\ HasElse(f) /\ NoGotoNoLabel(f)
        /\ trace[k].pc = f.at /\ IsFalse(trace[k].val)
        /\ pcs[k + 1] \in ElseBlock(f)
        /\ RunEnd(k, Inside(f)) < Len(pcs)

\* A FOR of the source: the initial assignment at address at, the body from
\* at + 1, the increment at incr, the test at incr + 1, the exit at incr + 2.
Body(g) == (g.at + 1)..(g.incr - 1)
Test(g) == g.incr + 1
Exit(g) == g.incr + 2
LoopVar(g) == program[g.at + 1].varname
BodyPlain(g) ==
    \A a \in Body(g) :
        /\ ~LabelGoto(program[a + 1])
        /\ program[a + 1].op = "Let" => program[a + 1].varname # LoopVar(g)
Min(xs) == CHOOSE x \in xs : \A y \in xs : x <= y
\* the indices from k on up to the next time the loop is entered
Pass(k, g) == k..(Min({j \in (k + 1)..Len(pcs) : pcs[j] = g.at} \cup {Len(pcs) + 1}) - 1)
Tests(k, g) == {j \in Pass(k, g) : pcs[j] = Test(g)}
InitNotBelowFinal(g) ==
    /\ IsNumeric(g.init) /\ IsNumeric(g.final)
    /\ ParseDigits(g.init) >= ParseDigits(g.final)

\* C3: once the initial assignment of a FOR has executed, the body starts and
\* the increment executes before the test is evaluated for the first time,
\* whatever the initial and final values; when the initial value is not below
\* the final one the first test fails and the body has executed exactly once.
C3_PostTestLoop ==
    \A k \in 1..Len(trace) : \A g \in Layout.fors :
        (trace[k].pc = g.at /\ BodyPlain(g)) =>
            /\ pcs[k + 1] = g.at + 1
            /\ Tests(k, g) # {} =>
                  /\ Min(Tests(k, g)) >= k + 2
                  /\ pcs[Min(Tests(k, g)) - 1] = g.incr
                  /\ \A i \in (k + 1)..(Min(Tests(k, g)) - 2) : pcs[i] \in Body(g)
            /\ (InitNotBelowFinal(g) /\ Tests(k, g) # {} /\ Min(Tests(k, g)) <= Len(trace)) =>
                  /\ IsFalse(trace[Min(Tests(k, g))].val)
                  /\ pcs[Min(Tests(k, g)) + 1] = Exit(g)
                  /\ Cardinality({j \in Pass(k, g) : pcs[j] = g.at + 1}) = 1
                  /\ Cardinality(Tests(k, g)) = 1

\* A loop from 2 to 1 has run its body, failed its first test and been left.
C3_Witness ==
    \E k \in 1..Len(trace) : \E g \in Layout.fors :
        /\ trace[k].pc = g.at /\ BodyPlain(g) /\ Body(g) # {}
        /\ g.init = <<"2">> /\ g.final = <<"1">>
        /\ Tests(k, g) # {} /\ Min(Tests(k, g)) <= Len(trace)
        /\ pc = Exit(g)

RECURSIVE Leaves(_)
\* the operands of an expression in the order eval reaches them
Leaves(e) == IF e.k \in {"Number", "String", "Variable", "Label"} THEN <<e>>
             ELSE Leaves(e.l) \o Leaves(e.r)
Unassigned(x) == x.k = "Variable" /\ x.name \notin DOMAIN variables
\* the statement the run is at reads a variable nothing assigned
ReadsUnassigned ==
    /\ phase = "run" /\ pc < Len(program)
    /\ program[pc + 1].op \in {"Let", "Print", "If"}
    /\ \E i \in 1..Len(Leaves(program[pc + 1].expr)) :
          /\ Unassigned(Leaves(program[pc + 1].expr)[i])
          /\ \A j \in 1..(i - 1) : Leaves(program[pc + 1].expr)[j].k # "Label"

\* C10: a LET, PRINT or IF that reads a variable nothing assigned aborts the
\* run with the undefined-variable error (KeyError): the variables, the output
\* and the program counter stay as they were, and after an error no further
\* instruction executes.
C10_UnassignedAborts ==
    [][/\ ReadsUnassigned =>
            /\ phase' = "error" /\ err' = "KeyError"
            /\ UNCHANGED <<variables, output, pc, trace, program>>
       /\ phase = "error" => UNCHANGED vars]_vars

\* A LET failed on an unassigned variable after the run printed and assigned.
C10_Witness ==
    /\ phase = "error" /\ err = "KeyError"
    /\ program[pc + 1].op = "Let"
    /\ output # <<>> /\ variables # <<>>
    /\ <<"Y">> \in DOMAIN variables

(***************************************************************************)
(* Expressions                                                             *)
(***************************************************************************)
\* The expression of the first statement starts after PRINT, or after
\* LET <name> =.
FirstExprAt == IF TokEq(tokens[1], kPRINT) THEN 2 ELSE 4
IsOperand(tok) == tok.type \in {"Token", "StringToken"} /\ ~InOperators(tok)
\* the number of operands of the chain that starts at token i
RECURSIVE ChainLen(_)
ChainLen(i) ==
    IF i + 2 <= Len(tokens) /\ InOperators(tokens[i + 1]) /\ IsOperand(tokens[i + 2])
    THEN 1 + ChainLen(i + 2) ELSE 1

RECURSIVE RightTree(_)
\* a op (the rest of the chain), from token i on
RightTree(i) ==
    IF ChainLen(i) = 1 THEN convToken(tokens[i])
    ELSE OperatorNode(tokens[i + 1], convToken(tokens[i]), RightTree(i + 2))

RECURSIVE SameTree(_, _)
SameTree(a, b) ==
    /\ a.k = b.k
    /\ CASE a.k \in {"Number", "String"} -> a.value = b.value
         [] a.k \in {"Variable", "Label"} -> a.name = b.name
         [] OTHER -> SameTree(a.l, b.l) /\ SameTree(a.r, b.r)

\* the value of a literal operand
LitVal(tok) == IF tok.type = "StringToken" THEN S(tok.value) ELSE F(ParseDigits(tok.value))
IsLit(tok) == tok.type = "StringToken" \/ IsNumeric(tok.value)
OpOf(tok) == OperatorNode(tok, NoExpr, NoExpr).k
\* a PRINT of three literal operands: first (second third)
ThreeLits ==
    /\ program # <<>> /\ Len(program) = 1 /\ TokEq(tokens[1], kPRINT)
    /\ ChainLen(2) = 3 /\ \A i \in {2, 4, 6} : IsLit(tokens[i])
InnerResult == Apply(OpOf(tokens[5]), LitVal(tokens[4]), LitVal(tokens[6]))
OuterResult == Apply(OpOf(tokens[3]), LitVal(tokens[2]), InnerResult.val)
TenFiveTwo == PrintS(<<"1","0">> \o <<" ","-"," ","5"," ","-"," ","2">>)

\* C6: a chain of operators groups right-to-left whatever the operators: the
\* expression parsed from a op1 b op2 c ... is a op1 (b op2 (c ...)), a chain
\* of three literals evaluates to the outer operator applied to the first
\* operand and the result of the inner one, and 10 - 5 - 2 prints 7.0.
C6_RightToLeft ==
    /\ program # <<>> =>
          SameTree(program[1].expr, RightTree(FirstExprAt))
    /\ (ThreeLits /\ phase = "done") =>
          /\ InnerResult.exc = "" /\ OuterResult.exc = ""
          /\ output = <<PyStr(OuterResult.val)>>
    /\ (ThreeLits /\ phase = "error") =>
          err = IF InnerResult.exc # "" THEN InnerResult.exc ELSE OuterResult.exc
    /\ (src = TenFiveTwo /\ phase = "done") => output = <<<<"7", ".", "0">>>>

\* 10 - 5 - 2 has been parsed as 10 - (5 - 2) and has printed 7.0.
C6_Witness ==
    /\ src = TenFiveTwo /\ phase = "done"
    /\ ChainLen(2) = 3
    /\ program[1].expr.r.k = "Minus"
    /\ output = <<<<"7", ".", "0">>>>

\* a PRINT of two literal operands
TwoLits ==
    /\ program # <<>> /\ Len(program) = 1 /\ TokEq(tokens[1], kPRINT)
    /\ ChainLen(2) = 2 /\ IsLit(tokens[2]) /\ IsLit(tokens[4])
BothNumbers == tokens[2].type = "Token" /\ tokens[4].type = "Token"

\* C7: + - < and > give a result only when both operands are numbers: with a
\* text on either side nothing is printed and the run aborts with a type
\* error.
C7_ArithmeticNeedsNumbers ==
    (TwoLits /\ OpOf(tokens[3]) \in {"Plus", "Minus", "LessThan", "GreaterThan"}
             /\ ~BothNumbers) =>
        /\ output = <<>>
        /\ phase # "done"
        /\ phase = "error" => err = "TypeError"

\* the kind of a value: number, text, or the result of a comparison
Kind(x) == IF x.t \in {"float", "int"} THEN "number" ELSE x.t
\* a PRINT of l = r whose operands both evaluate
PrintsEquals ==
    /\ program # <<>> /\ Len(program) = 1
    /\ program[1].op = "Print" /\ program[1].expr.k = "Equals"
    /\ eval(program[1].expr.l, <<>>).exc = ""
    /\ eval(program[1].expr.r, <<>>).exc = ""
LeftValue == eval(program[1].expr.l, <<>>).val
RightValue == eval(program[1].expr.r, <<>>).val

\* C8: = is false for operands of different kinds (a number and a text, a
\* number and the result of a comparison).
C8_EqualsNeverCoerces ==
    (PrintsEquals /\ phase = "done" /\ Kind(LeftValue) # Kind(RightValue)) =>
        output = <<<<"F", "a", "l", "s", "e">>>>

\* the text of a literal as written, and as PRINT shows it
PlainText(tok) == tok.value
ShownText(tok) == IF tok.type = "StringToken" THEN tok.value ELSE tok.value \o <<".", "0">>
XEquals5 == PrintS(Bin(Str(<<"x","=">>), "&", <<"5">>))
\* a PRINT of l & r with l a literal
PrintsConcat ==
    /\ program # <<>> /\ Len(program) = 1 /\ TokEq(tokens[1], kPRINT)
    /\ ChainLen(2) >= 2 /\ OpOf(tokens[3]) = "Concat" /\ IsLit(tokens[2])

\* C9 as stated: l & r prints the text of l followed by the text of r, a
\* number by its digits alone, so that PRINT "x=" & 5 prints x=5.
C9_ConcatPlainText ==
    /\ (TwoLits /\ OpOf(tokens[3]) = "Concat" /\ phase = "done") =>
          output = <<PlainText(tokens[2]) \o PlainText(tokens[4])>>
    /\ (src = XEquals5 /\ phase = "done") => output = <<<<"x", "=", "5">>>>

\* C9 amended: & never fails on the kinds of its operands (a run that fails
\* fails in evaluating the right operand), l & r prints the text of l followed
\* by the text of r, a number with its decimal point, and PRINT "x=" & 5
\* prints x=5.0.
C9_ConcatShownText ==
    /\ (PrintsConcat /\ phase = "error") =>
          /\ eval(program[1].expr.r, <<>>).exc = err
          /\ err # ""
    /\ (PrintsConcat /\ phase = "done") =>
          /\ eval(program[1].expr.r, <<>>).exc = ""
          /\ output = <<ShownText(tokens[2]) \o PyStr(eval(program[1].expr.r, <<>>).val)>>
    /\ (TwoLits /\ OpOf(tokens[3]) = "Concat") => phase # "error"
    /\ (TwoLits /\ OpOf(tokens[3]) = "Concat" /\ phase = "done") =>
          output = <<ShownText(tokens[2]) \o ShownText(tokens[4])>>
    /\ (src = XEquals5 /\ phase = "done") => output = <<<<"x", "=", "5", ".", "0">>>>

\* PRINT "x=" & 5 has printed x=5.0.
C9_Witness ==
    /\ src = XEquals5 /\ phase = "done"
    /\ program[1].expr.k = "Concat"
    /\ output = <<<<"x", "=", "5", ".", "0">>>>

(***************************************************************************)
(* The lexer                                                               *)
(***************************************************************************)
RECURSIVE Runs(_, _)
\* the words of a text without quotes: its maximal runs of characters that
\* are neither separators nor operators, and its operators; cur is the run
\* being read
Runs(s, cur) ==
    IF s = <<>> THEN (IF cur = <<>> THEN <<>> ELSE <<cur>>)
    ELSE IF Has(separators, Head(s))
         THEN (IF cur = <<>> THEN <<>> ELSE <<cur>>) \o Runs(Tail(s), <<>>)
    ELSE IF Has(operators, Head(s))
         THEN (IF cur = <<>> THEN <<>> ELSE <<cur>>) \o <<<<Head(s)>>>> \o Runs(Tail(s), <<>>)
    ELSE Runs(Tail(s), cur \o <<Head(s)>>)

\* the values of the tokens that are words or operators
WordValues ==
    LET ws == SelectSeq(tokens, LAMBDA t : t.type = "Token")
    IN [i \in 1..Len(ws) |-> ws[i].value]
LetX1 == kLET \o Sp \o Bin(<<"X">>, "=", <<"1">>)

\* C4: lexing yields one token for every maximal run of word characters, the
\* run the input ends with included: LET X = 1 without a final newline yields
\* LET, X, =, 1.
C4_EveryRunIsAToken ==
    /\ (lexst = "done" /\ ~Has(src, "\"")) => WordValues = Runs(src, <<>>)
    /\ (lexst = "done" /\ src = LetX1) => WordValues = <<kLET, <<"X">>, <<"=">>, <<"1">>>>

\* C5: once the input is exhausted the lexer has stopped: it is not in a text
\* literal still reading for the closing quote.
C5_LexerStopsAtEndOfInput ==
    c = "" => lexst # "string"

(***************************************************************************)
(* Sources that end inside a construct, and FOR loops by their closing     *)
(* keyword                                                                 *)
(***************************************************************************)
IfOpenS(cnd, tb) == kIF \o Sp \o cnd \o Sp \o kTHEN \o NL \o tb
ForOpenS(v, a, b, body) == kFOR \o Sp \o Bin(v, "=", a) \o Sp \o kTO \o Sp \o b \o NL \o body
ForEndS(v, a, b, body) == ForOpenS(v, a, b, body) \o kEND \o NL
ForNamedS(v, a, b, body) == ForOpenS(v, a, b, body) \o kNEXT \o Sp \o v \o NL

Unfinished ==
    {IfOpenS(cnd, PB) : cnd \in Conds}
    \cup {IfOpenS(cnd, PB \o kELSE \o NL \o PZ) : cnd \in Conds}
    \cup {ForOpenS(<<"X">>, a, b, PB) : a \in Nums, b \in Nums}
    \cup {kPRINT \o NL, kLET \o NL, kLET \o Sp \o <<"X">> \o NL,
          kLET \o Sp \o <<"X", " ", "=">> \o NL}
TruncatedSources == {pre \o u : pre \in {<<>>, PA, LY \o PA}, u \in Unfinished}

\* A loop of the family: its bounds, the text of its body and the statement
\* the body is.
ForBodies == {[text |-> PA, stmt |-> PrintStmt(String(<<"A">>))],
              [text |-> PrintS(<<"X">>), stmt |-> PrintStmt(Variable(<<"X">>))],
              [text |-> LY, stmt |-> Let(<<"Y">>, Number(1))]}
ForCases == [a : 0..MaxNum, b : 0..MaxNum, body : ForBodies]
ForEndText(cs) == ForEndS(<<"X">>, Num(cs.a), Num(cs.b), cs.body.text)
ForNextText(cs) == ForS(<<"X">>, Num(cs.a), Num(cs.b), cs.body.text)
ForNamedText(cs) == ForNamedS(<<"X">>, Num(cs.a), Num(cs.b), cs.body.text)
ParseSources ==
    TruncatedSources
    \cup {t \o tail : t \in {ForEndText(cs) : cs \in ForCases}
                           \cup {ForNextText(cs) : cs \in ForCases}
                           \cup {ForNamedText(cs) : cs \in ForCases},
                      tail \in {<<>>, PZ}}

InitParse == \E text \in ParseSources : Start(text)
SpecParse == InitParse /\ [][Next]_vars

\* the source ends with an IF or a FOR still open, or with a PRINT or LET
\* that has no expression
EndsUnfinished ==
    \/ Layout.open # <<>>
    \/ \E i \in 1..Len(SourceLines) :
          SourceLines[i] \in {kPRINT, kLET, kLET \o Sp \o <<"X">>,
                              kLET \o Sp \o <<"X", " ", "=">>}

\* C11: a source that ends inside a construct is rejected by the parser with
\* an unexpected-token error: it is never run, no instruction of it executes
\* and nothing is printed.
C11_UnfinishedIsRejected ==
    (EndsUnfinished /\ phase # "lex") =>
        /\ phase = "error" /\ err = "UnexpectedError"
        /\ trace = <<>> /\ output = <<>> /\ variables = <<>>

RECURSIVE SameStmt(_, _)
SameStmt(x, y) ==
    /\ x.op = y.op
    /\ CASE x.op = "Let" -> x.varname = y.varname /\ SameTree(x.expr, y.expr)
         [] x.op = "Print" -> SameTree(x.expr, y.expr)
         [] x.op = "Goto" -> x.pc = y.pc /\ x.label = y.label
         [] x.op = "If" -> /\ SameTree(x.expr, y.expr)
                           /\ SameStmt(x.ifTrue, y.ifTrue)
                           /\ SameStmt(x.ifFalse, y.ifFalse)
         [] OTHER -> TRUE
SameProgram(p, q) == Len(p) = Len(q) /\ \A i \in 1..Len(p) : SameStmt(p[i], q[i])

\* Assign(name, init), the body, the increment and the branch back to the body
ForLowered(cs) ==
    <<Let(<<"X">>, Number(cs.a)), cs.body.stmt,
      Let(<<"X">>, Infix("Plus", Variable(<<"X">>), Number(1))),
      If(Infix("LessThan", Variable(<<"X">>), Number(cs.b)), GotoPC(1), None)>>
Parsed == phase \in {"run", "done"} \/ (phase = "error" /\ err \notin {"UnexpectedError", "Exception"})
ParsedAs(p) == Parsed /\ trace = <<>> => SameProgram(SubSeq(program, 1, Len(p)), p)

L == <<"L">>
LabelS(l) == l \o <<":">> \o NL
LX == LetS(<<"X">>, <<"0">>)
\* what may follow the declaration of a label
AfterLabel ==
    {<<>>, PZ, LY \o PZ}
    \cup {IfS(cnd, PA, PB) \o tail : cnd \in Conds, tail \in {<<>>, PZ}}
    \cup {IfNoElseS(cnd, PA) \o tail : cnd \in Conds, tail \in {<<>>, PZ}}
    \cup {ForS(<<"X">>, a, b, PA) \o tail : a \in Nums, b \in Nums, tail \in {<<>>, PZ}}
\* a block with the label in it, and the same block jumping out of it
WithLabel == {LabelS(L) \o PA, PA \o LabelS(L), PA \o LabelS(L) \o PB}
JumpSources ==
    \* the label after the GOTO
    {pre \o GotoS(L) \o PB \o LabelS(L) \o t : pre \in {<<>>, PA}, t \in AfterLabel}
    \* the label before the GOTO, the jump back taken once or for ever
    \cup {LetS(<<"N">>, <<"0">>) \o LabelS(L) \o PrintS(<<"N">>)
          \o IfNoElseS(Bin(<<"N">>, "<", Num(n)),
                       LetS(<<"N">>, Bin(<<"N">>, "+", <<"1">>)) \o GotoS(L)) \o tail :
             n \in 0..MaxNum, tail \in {<<>>, PZ}}
    \cup {LabelS(L) \o PA \o GotoS(L)}
    \* the label inside a block of an IF or the body of a FOR
    \cup {pre \o GotoS(L) \o IfS(cnd, b, PZ) \o tail :
             pre \in {<<>>, PA}, cnd \in Conds, b \in WithLabel, tail \in {<<>>, PZ}}
    \cup {pre \o GotoS(L) \o IfS(cnd, PZ, b) \o tail :
             pre \in {<<>>, PA}, cnd \in Conds, b \in WithLabel, tail \in {<<>>, PZ}}
    \cup {LX \o GotoS(L) \o ForS(<<"X">>, a, b, blk) \o PZ :
             a \in Nums, b \in Nums, blk \in WithLabel}
    \* the GOTO inside a block, the label outside
    \cup {IfS(cnd, GotoS(L), PB) \o PA \o LabelS(L) \o tail :
             cnd \in Conds, tail \in {<<>>, PZ}}
    \cup {ForS(<<"X">>, a, b, GotoS(L)) \o PA \o LabelS(L) \o PZ : a \in Nums, b \in Nums}

InitJump == \E text \in JumpSources : Start(text)
SpecJump == InitJump /\ [][Next]_vars

\* the addresses a statement holds
Addresses(s) ==
    CASE s.op = "Goto" -> IF s.pc = NoPC THEN {} ELSE {s.pc}
      [] s.op = "If" -> (IF s.ifTrue.op = "Goto" THEN {s.ifTrue.pc} ELSE {})
                        \cup (IF s.ifFalse.op = "Goto" THEN {s.ifFalse.pc} ELSE {})
      [] OTHER -> {}
AllAddresses ==
    UNION {Addresses(program[i]) : i \in 1..Len(program)}
    \cup {labels[l] : l \in DOMAIN labels}

\* C13 as stated: after parsing, every address a jump, a branch or the label
\* table holds is strictly less than the length of the program.
C13_AddressesBelowLength ==
    Parsed => \A a \in AllAddresses : a < Len(program)

\* the IF the source ends with, if any
LastIfs == {f \in Layout.ifs : f.end = Layout.n}

\* C13 amended: after parsing, every address a jump, a branch or the label
\* table holds is at most the length of the program; the false target of an
\* IF without ELSE that ends the program, the jump over the ELSE block of an
\* IF that ends the program and a label declared after the last statement
\* hold exactly the length.
C13_AddressesAtMostLength ==
    Parsed =>
        /\ \A a \in AllAddresses : 0 <= a /\ a <= Len(program)
        /\ \A f \in LastIfs :
              IF HasElse(f) THEN program[f.jump + 1].pc = Len(program)
              ELSE program[f.at + 1].ifFalse.pc = Len(program)
        /\ (Len(SourceLines) >= 2 /\ SourceLines[Len(SourceLines) - 1] = L \o <<":">>) =>
              labels[L] = Len(program)

\* A parsed program that ends with an IF without ELSE whose false target is
\* the length of the program, and holds a label.
C13_Witness ==
    /\ Parsed /\ trace = <<>>
    /\ \E f \in LastIfs : ~HasElse(f) /\ program[f.at + 1].ifFalse.pc = Len(program)
    /\ L \in DOMAIN labels

\* the address of the first instruction emitted after the declaration of l:
\* the number of instructions the lines before it emit
DeclaredAt(l) == {i \in 1..Len(SourceLines) : SourceLines[i] = l \o <<":">>}
LabelAddress(l) ==
    LayoutFrom(EmptyLayout, SubSeq(SourceLines, 1, Min(DeclaredAt(l)) - 1)).n
\* the run is at a GOTO to a label declared exactly once
AtGoto ==
    /\ phase = "run" /\ pc < Len(program) /\ Len(trace) < MaxSteps
    /\ LabelGoto(program[pc + 1])
    /\ Cardinality(DeclaredAt(program[pc + 1].label)) = 1

\* C15: executing GOTO L, L declared exactly once, before or after the GOTO,
\* at top level, before an IF or FOR or inside a block, makes the next
\* instruction the first one emitted after the declaration of L, or ends the
\* run normally when none follows; the declaration emits no instruction, and
\* the jump prints and assigns nothing.
C15_GotoReachesLabel ==
    [][/\ AtGoto =>
            /\ pc' = LabelAddress(program[pc + 1].label)
            /\ pc' <= Len(program)
            /\ phase' = "run"
            /\ UNCHANGED <<output, variables>>
       /\ Parsed => Len(program) = Layout.n]_vars

\* A GOTO to a label inside the ELSE block of a later IF has printed what
\* follows the label and not what precedes it.
C15_Witness ==
    /\ phase = "done"
    /\ \E f \in Layout.ifs : HasElse(f) /\ LabelAddress(L) \in ElseBlock(f)
                             /\ LabelAddress(L) > f.jump + 1
    /\ Len(trace) >= 2 /\ LabelGoto(program[trace[1].pc + 1])
    /\ trace[2].pc = LabelAddress(L)
    /\ output = <<<<"B">>, <<"Z">>>>

(***************************************************************************)
(* The continuation test of FOR                                            *)
(***************************************************************************)
Max(x, y) == IF x >= y THEN x ELSE y
NumericBounds(g) == IsNumeric(g.init) /\ IsNumeric(g.final)
\* the last time the loop was entered
LastEntry(g) == CHOOSE k \in 1..Len(trace) :
                    /\ trace[k].pc = g.at
                    /\ \A j \in (k + 1)..Len(trace) : trace[j].pc # g.at
\* the loop has just been left: its test was the last instruction executed
JustLeft(g) ==
    /\ trace # <<>> /\ trace[Len(trace)].pc = Test(g)
    /\ pc = Exit(g) /\ phase \in {"run", "done"}
BodyRuns(g) == Cardinality({j \in Pass(LastEntry(g), g) : pcs[j] = g.at + 1})

\* C14: each executed test of a FOR branches back to the first instruction
\* of the body when it found the variable below the final value and falls
\* through otherwise; FOR X = a TO b over a body that does not assign X has,
\* when it is left, run its body max(1, b - a) times and holds
\* X = max(a + 1, b).
C14_StrictContinuation ==
    \A g \in Layout.fors :
        /\ \A j \in 1..Len(trace) :
              (trace[j].pc = Test(g) /\ trace[j].val.t = "bool") =>
                  pcs[j + 1] = IF trace[j].val.v THEN g.at + 1 ELSE Exit(g)
        /\ (JustLeft(g) /\ NumericBounds(g) /\ BodyPlain(g)) =>
              /\ BodyRuns(g) = Max(1, ParseDigits(g.final) - ParseDigits(g.init))
              /\ Cardinality(Tests(LastEntry(g), g)) = BodyRuns(g)
              /\ LoopVar(g) \in DOMAIN variables
              /\ variables[LoopVar(g)].t = "float"
              /\ variables[LoopVar(g)].v
                    = Max(ParseDigits(g.init) + 1, ParseDigits(g.final))

\* A loop from 0 to MaxNum has been left after MaxNum runs of its body.
C14_Witness ==
    \E g \in Layout.fors :
        /\ JustLeft(g) /\ BodyPlain(g) /\ Body(g) # {}
        /\ g.init = <<"0">> /\ g.final = Num(MaxNum)
        /\ BodyRuns(g) = MaxNum
        /\ variables[LoopVar(g)].v = MaxNum

(***************************************************************************)
(* The variable table                                                      *)
(***************************************************************************)
SameValue(x, y) == x.t = y.t /\ x.v = y.v
\* the name the statement the run is at assigns, if it is a LET
Assigned == IF phase = "run" /\ pc < Len(program) /\ program[pc + 1].op = "Let"
            THEN {program[pc + 1].varname} ELSE {}

\* C16: only executing a LET changes the variable table, and then at most
\* the binding of the name it assigns: PRINT, GOTO and IF leave every binding
\* as it was, and no step removes a name from the table.
C16_OnlyLetAssigns ==
    [][/\ DOMAIN variables \subseteq DOMAIN variables'
       /\ \A n \in DOMAIN variables :
             ~SameValue(variables'[n], variables[n]) => n \in Assigned
       /\ \A n \in DOMAIN variables' \ DOMAIN variables : n \in Assigned]_vars

\* A run has assigned two variables and executed a branch after both.
C16_Witness ==
    /\ phase = "done"
    /\ Cardinality(DOMAIN variables) = 2
    /\ trace[Len(trace)].val.t = "bool"
    /\ \E k \in 1..Len(trace) : program[trace[k].pc + 1].op = "Let"
                                /\ program[trace[k].pc + 1].varname = <<"Y">>

(***************************************************************************)
(* The instructions of an IF                                               *)
(***************************************************************************)
\* An IF of the family: its condition, its THEN block and its ELSE block by
\* their text and the statements they are; NoElse for an IF without ELSE.
BlockCases == {[text |-> <<>>, stmts |-> <<>>],
               [text |-> PA, stmts |-> <<PrintStmt(String(<<"A">>))>>],
               [text |-> LY, stmts |-> <<Let(<<"Y">>, Number(1))>>]}
NoElse == [text |-> <<"none">>, stmts |-> <<>>]
IfCases == [cnd : Conds, t : BlockCases, e : BlockCases \cup {NoElse}]
IfText(cs) == IF cs.e = NoElse THEN IfNoElseS(cs.cnd, cs.t.text)
              ELSE IfS(cs.cnd, cs.t.text, cs.e.text)
\* the condition as the tokens after IF spell it
Condition == RightTree(2)

\* the branch, the ELSE block, a jump past the THEN block, the THEN block
ElseFirst(cs) ==
    <<If(Condition, GotoPC(2 + Len(cs.e.stmts)), GotoPC(1))>>
    \o cs.e.stmts
    \o <<GotoPC(2 + Len(cs.e.stmts) + Len(cs.t.stmts))>>
    \o cs.t.stmts
\* the branch, the THEN block, with ELSE a jump past the ELSE block and the
\* ELSE block
ThenFirst(cs) ==
    IF cs.e = NoElse
    THEN <<If(Condition, GotoPC(1), GotoPC(1 + Len(cs.t.stmts)))>> \o cs.t.stmts
    ELSE <<If(Condition, GotoPC(1), GotoPC(2 + Len(cs.t.stmts)))>>
         \o cs.t.stmts
         \o <<GotoPC(2 + Len(cs.t.stmts) + Len(cs.e.stmts))>>
         \o cs.e.stmts
TailLen(tail) == IF tail = <<>> THEN 0 ELSE 1

Straight ==
    /\ Layout.fors = {} /\ Layout.open = <<>>
    /\ \A i \in 1..Len(SourceLines) : WordsOf(SourceLines[i])[1] \notin {kGOTO, kFOR, kNEXT}

\* C18: in a program of LET, PRINT, REM and IF every jump aims past the
\* instruction that holds it, the program counter increases with every
\* instruction executed, so that no instruction executes twice and at most
\* len(program) instructions execute; a run that has not ended can always
\* take a step, ends normally only with pc >= len(program), and ends
\* abnormally only by an evaluation error.
C18_StraightProgramsEnd ==
    (Straight /\ Parsed) =>
        /\ \A i \in 1..Len(program) : \A a \in Addresses(program[i]) : a > i - 1
        /\ \A k \in 1..(Len(pcs) - 1) : pcs[k] < pcs[k + 1]
        /\ Len(trace) <= Len(program) /\ pc <= Len(program)
        /\ phase = "run" => (pc < Len(program) => Len(trace) < MaxSteps)
        /\ phase = "done" => pc >= Len(program)
        /\ phase = "error" => err \in {"KeyError", "TypeError"}

\* A program of three nested IFs has run to its end.
C18_Witness ==
    /\ Straight /\ phase = "done"
    /\ Cardinality(Layout.ifs) = 3
    /\ Len(trace) >= 4 /\ output # <<>>

\* A program with REM lines in and around an IF has run to its end.
C18_WitnessRem ==
    /\ Straight /\ phase = "done" /\ src \in Remarked /\ Len(output) = 2

====
